---- MODULE Spec2Model ----
(***************************************************************************)
(* A model of confumo: the per-class singleton registry of SingletonBase   *)
(* and the Confumo configuration object (platform resolver, argument       *)
(* parser, configuration assembler, attribute lookup, save_config, copy).  *)
(*                                                                         *)
(* Python values are modelled as strings; None is the sentinel string     *)
(* None.  A dict is a function whose DOMAIN is its key set.  Objects live  *)
(* in the heap objs (a sequence indexed by object identity) and hold a     *)
(* reference (an index into dicts) to their config dict, so that aliasing  *)
(* of one dict by two objects is expressible.                              *)
(***************************************************************************)
EXTENDS Naturals, Sequences, FiniteSets, TLC

(* ------------------------------ bounds -------------------------------- *)

\* the most objects (constructed instances and copies) a behaviour allocates
MaxInst == 2

\* the most item assignments / deletions on config dicts in a behaviour
MaxMut == 1

\* the most save_config calls in a behaviour (SaveSpec)
MaxSave == 2

\* the number of threads racing in get_instance (RaceSpec)
NThreads == 2

(* --------------------------- value alphabets -------------------------- *)

None == "<None>"

Truthy(v) == v # None /\ v # ""

\* the concrete classes keyed in SingletonBase._instances
Classes == {"Confumo", "SubConfumo"}

\* app_name arguments; "confumo" is the constructor's default
AppNames == {"confumo", "testapp"}

Platforms == {"Darwin", "Linux", "CYGWIN", "Windows", "FreeBSD"}

LocalAppDataValues == {None, "", "C:/Users/u/AppData/Local"}

OsTypeValues == {None, "linux-gnu", "Cygwin"}

\* what running ['cygpath', '-w', p] does: prints the converted path, exits
\* non-zero printing nothing, or is not installed
CygpathOutcomes == {"ok", "fail", "missing"}

\* the current working directory os.path.abspath resolves against
Cwd == "/work"

\* the relative paths among the --config_dir values
RelPaths == {"./rel"}

ConfigDirArgs == {None, "./rel", "/abs/dir"}

LogLevelChoices == {"DEBUG", "INFO", "WARNING", "ERROR", "CRITICAL"}

LogLevelArgs == {None, "DEBUG", "BOGUS"}

ConfigArgs == {None, "", "app.yaml"}

\* the keys a config file may hold, and the values it may give them
FileKeys == {"log_level", "custom_value"}

FileValues == {"DEBUG", None}

FileMappings == UNION {[ks -> FileValues] : ks \in SUBSET FileKeys}

\* a YAML document as yaml.safe_load returns it: None for an empty file, a
\* list or scalar, or a top-level mapping
Documents ==
    {[kind |-> k, map |-> <<>>] : k \in {"none", "list", "scalar"}}
        \cup {[kind |-> "map", map |-> m] : m \in FileMappings}

\* what is stored at the --config path: nothing, text that is not YAML, or
\* a document
FileStates ==
    {[state |-> s, doc |-> [kind |-> "none", map |-> <<>>]] :
        s \in {"missing", "malformed"}}
        \cup {[state |-> "yaml", doc |-> d] : d \in Documents}

\* additional_args: None, or one extra flag --mode with default "fast"
AdditionalArgs == {None, "mode"}

\* sys.argv as the flags it sets
Argvs ==
    [config : ConfigArgs, log_level : LogLevelArgs, config_dir : ConfigDirArgs]

NoFile == [state |-> "missing", doc |-> [kind |-> "none", map |-> <<>>]]

\* the process environments a behaviour may run in.  What the code never
\* reads is held at one value: cygpath is run only under Cygwin, and the
\* file is opened only when --config is set
Envs ==
    {e \in [platform : Platforms, LOCALAPPDATA : LocalAppDataValues,
            OSTYPE : OsTypeValues, cygpath : CygpathOutcomes,
            argv : Argvs, file : FileStates] :
        /\ (e.OSTYPE # "Cygwin" => e.cygpath = "missing")
        /\ (~Truthy(e.argv.config) => e.file = NoFile)}

(* ----------------------------- path helpers --------------------------- *)

\* os.path.join(a, b) for a relative second component
Join(a, b) == a \o "/" \o b

\* os.path.expanduser of the two fixed per-user paths
ExpandUser(p) ==
    CASE p = "~/Library/Application Support"
            -> "/home/u/Library/Application Support"
      [] p = "~/.config" -> "/home/u/.config"
      [] OTHER -> p

\* os.path.normpath on the model's paths: a leading "./" is dropped
NormPath(p) == IF p \in RelPaths THEN "rel" ELSE p

\* os.path.abspath: join with the working directory when relative, then
\* normalise
abspath(p) ==
    IF p \in RelPaths THEN Join(Cwd, NormPath(p)) ELSE NormPath(p)

\* the stdout of cygpath -w, stripped
CygpathW(p) == IF p \in RelPaths THEN NormPath(p) ELSE "C:/cygwin64" \o p

\* str.lower() on the OSTYPE values
Lower(s) == IF s = "Cygwin" THEN "cygwin" ELSE s

\* 'cygwin' in s, on the lowered OSTYPE values
ContainsCygwin(s) == s = "cygwin"

\* f"{app_name}_config.yaml"
ConfigFileName(app_name) == app_name \o "_config.yaml"

(* ------------------------------- results ------------------------------ *)

\* a call's outcome: a returned value, or a raised exception
Ok(v) == [ok |-> TRUE, val |-> v, err |-> ""]

Raise(e) == [ok |-> FALSE, val |-> None, err |-> e]

ConfumoErrorLocalAppData ==
    "ConfumoError: LOCALAPPDATA environment variable is not set on Windows"

ConfumoErrorUnsupportedOS == "ConfumoError: Unsupported OS"

ConfumoErrors == {ConfumoErrorLocalAppData, ConfumoErrorUnsupportedOS}

(* -------------------------- Confumo: construction --------------------- *)

\* a faulty variant of get_default_config_dir: LOCALAPPDATA is tested against None,
\* so an empty value is returned as the directory
get_default_config_dir_is_not_none(platform_name, local_app_data) ==
    IF platform_name = "Darwin"
    THEN Ok(ExpandUser("~/Library/Application Support"))
    ELSE IF platform_name \in {"Linux", "CYGWIN"}
    THEN Ok(ExpandUser("~/.config"))
    ELSE IF platform_name = "Windows"
    THEN IF local_app_data # None
         THEN Ok(local_app_data)
         ELSE Raise(ConfumoErrorLocalAppData)
    ELSE Raise(ConfumoErrorUnsupportedOS)

\* Confumo._get_default_config_dir
get_default_config_dir(platform_name, local_app_data) ==
    IF platform_name = "Darwin"
    THEN Ok(ExpandUser("~/Library/Application Support"))
    ELSE IF platform_name \in {"Linux", "CYGWIN"}
    THEN Ok(ExpandUser("~/.config"))
    ELSE IF platform_name = "Windows"
    THEN IF Truthy(local_app_data)
         THEN Ok(local_app_data)
         ELSE Raise(ConfumoErrorLocalAppData)
    ELSE Raise(ConfumoErrorUnsupportedOS)

\* the fields the extra flags of additional_args add, with their defaults
ExtraFields(additional_args) ==
    IF Truthy(additional_args) THEN {"mode"} ELSE {}

\* Confumo._parse_args: the Namespace as a function from field to value;
\* argparse exits (SystemExit) on a --log_level outside its choices
parse_args(argv, config_dir, additional_args) ==
    IF argv.log_level # None /\ argv.log_level \notin LogLevelChoices
    THEN Raise("SystemExit")
    ELSE Ok([f \in {"config", "log_level", "config_dir"}
                    \cup ExtraFields(additional_args) |->
                CASE f = "config" -> argv.config
                  [] f = "log_level" ->
                        IF argv.log_level = None THEN "INFO"
                        ELSE argv.log_level
                  [] f = "config_dir" ->
                        IF argv.config_dir = None THEN config_dir
                        ELSE argv.config_dir
                  [] OTHER -> "fast"])

\* Confumo._is_cygwin
is_cygwin(env) ==
    ContainsCygwin(Lower(IF env.OSTYPE = None THEN "" ELSE env.OSTYPE))

\* Confumo._cygwin_to_windows_path: subprocess.run without check=True
cygwin_to_windows_path(path, env) ==
    CASE env.cygpath = "missing" -> Raise("FileNotFoundError")
      [] env.cygpath = "fail" -> Ok("")
      [] OTHER -> Ok(CygpathW(path))

\* Confumo._ensure_windows_path
ensure_windows_path(path, env) ==
    IF ~is_cygwin(env) THEN Ok(abspath(path))
    ELSE cygwin_to_windows_path(path, env)

\* Confumo._read_config_file: open() then yaml.safe_load
read_config_file(config_path, env) ==
    CASE env.file.state = "missing" -> Raise("FileNotFoundError")
      [] env.file.state = "malformed" -> Raise("YAMLError")
      [] OTHER -> Ok(env.file.doc)

\* a faulty variant of NonNoneItems: the items are not filtered
NonNoneItems_unfiltered(file_config) == file_config

\* {k: v for k, v in file_config.items() if v is not None}
NonNoneItems(file_config) ==
    [k \in {j \in DOMAIN file_config : file_config[j] # None} |->
        file_config[k]]

\* dict.update: d with the items of u replacing or adding to its own
update(d, u) ==
    [k \in DOMAIN d \cup DOMAIN u |-> IF k \in DOMAIN u THEN u[k] ELSE d[k]]

\* Confumo._initialize_configuration
initialize_configuration(app_name, args, env) ==
    LET config_dir == ensure_windows_path(args["config_dir"], env)
        config == [k \in {"log_level", "app_name", "config_dir"} |->
                      CASE k = "log_level" -> args["log_level"]
                        [] k = "app_name" -> app_name
                        [] OTHER -> config_dir.val]
    IN  IF ~config_dir.ok THEN config_dir
        ELSE IF Truthy(args["config"])
        THEN LET file_config == read_config_file(args["config"], env)
             IN  IF ~file_config.ok THEN file_config
                 ELSE IF file_config.val.kind # "map"
                 THEN Raise("AttributeError")
                 ELSE Ok(update(config, NonNoneItems(file_config.val.map)))
        ELSE Ok(config)

\* Confumo.__init__: the object built (with its config dict in field dict,
\* which the caller places in the heap), or the exception raised
Construct(cls, app_name, additional_args, env) ==
    LET default_dir == get_default_config_dir(env.platform, env.LOCALAPPDATA)
        config_dir == Join(default_dir.val, app_name)
        args == parse_args(env.argv, config_dir, additional_args)
        config == initialize_configuration(app_name, args.val, env)
    IN  IF ~default_dir.ok THEN default_dir
        ELSE IF ~args.ok THEN args
        ELSE IF ~config.ok THEN config
        ELSE Ok([cls |-> cls,
                 app_name |-> app_name,
                 platform_name |-> env.platform,
                 config_dir |-> config_dir,
                 additional_args |-> additional_args,
                 args |-> args.val,
                 dict |-> config.val])

(* -------------------------------- state ------------------------------- *)

VARIABLES
    env,            \* the process environment: platform, variables, argv, files
    instances,      \* SingletonBase._instances: class -> object id, 0 if absent
    module_getattr, \* per class module: the object its __getattr__ closes over
    objs,           \* the heap of Confumo objects, indexed by identity
    dicts,          \* the heap of config dicts, indexed by identity
    dirs,           \* the directories that exist on disk
    files,          \* the files on disk: path -> content
    last,           \* the last call made and what it returned or raised
    nmut,           \* the number of config item assignments / deletions so far
    nsave,          \* the number of save_config calls so far
    threads         \* the racing get_instance calls (RaceSpec)

vars ==
    <<env, instances, module_getattr, objs, dicts, dirs, files, last, nmut,
      nsave, threads>>

\* a call record: op, the receiver obj, the class, the name / app_name
\* argument, the value argument or result, the object returned, the
\* exception raised, and whether the guarded side effect ran (the constructor
\* in get_instance, os.makedirs in save_config)
Call(op, obj, cls, name, val, res, err, made) ==
    [op |-> op, obj |-> obj, cls |-> cls, name |-> name, val |-> val,
     res |-> res, err |-> err, made |-> made]

\* a thread's call of get_instance: where it is (pc), its arguments, whether
\* its membership test found no entry (absent), the object its constructor
\* call returned (new), and what the call returned (res) or raised (err)
Idle == [pc |-> "idle", cls |-> "", app_name |-> "", additional_args |-> None,
         absent |-> FALSE, new |-> 0, res |-> 0, err |-> ""]

\* the environments of Spec, SaveSpec and RaceSpec: a supported platform,
\* outside Cygwin, a config file that overrides log_level and gives
\* custom_value no value, with or without a --config_dir
SmallEnvs ==
    {e \in Envs :
        /\ e.platform = "Linux"
        /\ e.LOCALAPPDATA = None
        /\ e.OSTYPE = "linux-gnu"
        /\ e.cygpath = "missing"
        /\ e.argv.log_level = None
        /\ e.argv.config_dir \in {None, "./rel"}
        /\ e.argv.config = "app.yaml"
        /\ e.file = [state |-> "yaml",
                     doc |-> [kind |-> "map",
                              map |-> [k \in FileKeys |->
                                         IF k = "log_level" THEN "DEBUG"
                                         ELSE None]]]}

InitWith(envs) ==
    /\ env \in envs
    /\ instances = [c \in Classes |-> 0]
    /\ module_getattr = [c \in Classes |-> 0]
    /\ objs = <<>>
    /\ dicts = <<>>
    /\ dirs = {}
    /\ files = <<>>
    /\ last = Call("init", 0, "", "", None, 0, "", FALSE)
    /\ nmut = 0
    /\ nsave = 0
    /\ threads = [t \in 1..NThreads |-> Idle]

Init == InitWith(SmallEnvs)

(* ---------------------- SingletonBase.get_instance -------------------- *)

\* SingletonBase._setup_module_attributes: the module of the class gets a
\* __getattr__ closing over self unless it already has one
setup_module_attributes(cls, self) ==
    IF module_getattr[cls] = 0
    THEN [module_getattr EXCEPT ![cls] = self]
    ELSE module_getattr

\* the heap after cls(*args, **kwargs) returned the object built in made
Allocate(made) ==
    /\ objs' = Append(objs, [cls |-> made.cls,
                             app_name |-> made.app_name,
                             platform_name |-> made.platform_name,
                             config_dir |-> made.config_dir,
                             additional_args |-> made.additional_args,
                             args |-> made.args,
                             config |-> Len(dicts) + 1,
                             attrs |-> {}])
    /\ dicts' = Append(dicts, made.dict)
    /\ module_getattr' = setup_module_attributes(made.cls, Len(objs) + 1)

\* a faulty variant of get_instance: no membership test, every call constructs
get_instance_always_constructs(cls, app_name, additional_args) ==
    LET made == Construct(cls, app_name, additional_args, env)
    IN  /\ Len(objs) < MaxInst
        /\ made.ok
        /\ Allocate(made.val)
        /\ instances' = [instances EXCEPT ![cls] = Len(objs) + 1]
        /\ last' = Call("get_instance", 0, cls, app_name, additional_args,
                        Len(objs) + 1, "", TRUE)
        /\ UNCHANGED <<env, dirs, files, nmut, nsave, threads>>

\* SingletonBase.get_instance, called with no other call in progress
get_instance(cls, app_name, additional_args) ==
    IF instances[cls] = 0
    THEN LET made == Construct(cls, app_name, additional_args, env)
         IN  /\ Len(objs) < MaxInst
             /\ IF made.ok
                THEN /\ Allocate(made.val)
                     /\ instances' = [instances EXCEPT ![cls] = Len(objs) + 1]
                     /\ last' = Call("get_instance", 0, cls, app_name,
                                     additional_args, Len(objs) + 1, "", TRUE)
                ELSE /\ last' = Call("get_instance", 0, cls, app_name,
                                     additional_args, 0, made.err, TRUE)
                     /\ UNCHANGED <<objs, dicts, module_getattr, instances>>
             /\ UNCHANGED <<env, dirs, files, nmut, nsave, threads>>
    ELSE /\ last' = Call("get_instance", 0, cls, app_name, additional_args,
                         instances[cls], "", FALSE)
         /\ UNCHANGED <<env, instances, module_getattr, objs, dicts, dirs,
                        files, nmut, nsave, threads>>

\* the constructor arguments of the calls of Spec, SaveSpec and RaceSpec:
\* the defaults, or an app_name with an extra flag
CallArgs == {<<"confumo", None>>, <<"testapp", "mode">>}

GetInstance ==
    \E cls \in Classes, a \in CallArgs : get_instance(cls, a[1], a[2])

\* the specification of construction alone, over every environment
AsmInit == InitWith(Envs)

AsmNext ==
    \E app_name \in AppNames, additional_args \in AdditionalArgs :
        get_instance("Confumo", app_name, additional_args)

AsmSpec == AsmInit /\ [][AsmNext]_vars

(* ------------------------- Confumo: attribute lookup ------------------ *)

\* the names the classes define (methods and class attributes): ordinary
\* lookup finds them, so __getattr__ is never asked for them
ClassAttrs ==
    {"get_instance", "_instances", "_setup_module_attributes", "save_config",
     "copy", "_parse_args", "_initialize_configuration"}

\* the names bound in the module of Confumo that do not start with "__"
ModuleAttrs ==
    {"argparse", "deepcopy_module", "os", "platform", "subprocess", "sys",
     "yaml", "SingletonBase", "ConfumoError", "Confumo"}

\* the keys of self.__dict__: what __init__ assigns, and what copy() adds
InstanceDict(o) ==
    {"app_name", "platform_name", "config_dir", "additional_args", "args",
     "config"} \cup o.attrs

\* the names looked up on objects
LookupNames ==
    {"custom_value", "log_level", "mode", "app_name", "config_dir", "os",
     "missing_attr", "__setstate__"}

AttributeErrorNoMessage == "AttributeError"

AttributeErrorNoAttribute == "AttributeError: object has no attribute"

\* a faulty variant of getattr_hook: the parsed arguments are consulted before config
getattr_hook_args_first(o, config, name) ==
    IF name \in {"__getstate__", "__setstate__"}
    THEN Raise(AttributeErrorNoMessage)
    ELSE IF "args" \in InstanceDict(o) /\ name \in DOMAIN o.args
    THEN Ok(o.args[name])
    ELSE IF "config" \in InstanceDict(o) /\ name \in DOMAIN config
    THEN Ok(config[name])
    ELSE Raise(AttributeErrorNoAttribute)

\* Confumo.__getattr__ on an object whose config dict is config
getattr_hook(o, config, name) ==
    IF name \in {"__getstate__", "__setstate__"}
    THEN Raise(AttributeErrorNoMessage)
    ELSE IF "config" \in InstanceDict(o) /\ name \in DOMAIN config
    THEN Ok(config[name])
    ELSE IF "args" \in InstanceDict(o) /\ name \in DOMAIN o.args
    THEN Ok(o.args[name])
    ELSE Raise(AttributeErrorNoAttribute)

\* what ordinary lookup returns for a name it finds
Declared(o, name) ==
    CASE name = "app_name" -> o.app_name
      [] name = "platform_name" -> o.platform_name
      [] name = "config_dir" -> o.config_dir
      [] name = "additional_args" -> o.additional_args
      [] OTHER -> "<object>"

\* the expression o.name: ordinary lookup first, __getattr__ on a miss
getattr(o, config, name) ==
    IF name \in InstanceDict(o) \cup ClassAttrs
    THEN Ok(Declared(o, name))
    ELSE getattr_hook(o, config, name)

\* the config dict of object i
ConfigOf(i) == dicts[objs[i].config]

Lookup(i, name) ==
    LET r == getattr(objs[i], ConfigOf(i), name)
    IN  /\ last' = Call("getattr", i, objs[i].cls, name, r.val, 0, r.err,
                        FALSE)
        /\ UNCHANGED <<env, instances, module_getattr, objs, dicts, dirs,
                       files, nmut, nsave, threads>>

GetAttr == \E i \in 1..Len(objs), name \in LookupNames : Lookup(i, name)

(* ----------------------- the owner mutating a config ------------------ *)

\* the keys and values the owning process assigns after construction
MutKeys == {"custom_value", "log_level", "__setstate__"}

MutValues == {"x"}

\* instance.config[key] = value
setitem(i, key, value) ==
    /\ nmut < MaxMut
    /\ dicts' = [dicts EXCEPT ![objs[i].config] =
                    update(@, [k \in {key} |-> value])]
    /\ nmut' = nmut + 1
    /\ last' = Call("setitem", i, objs[i].cls, key, value, 0, "", FALSE)
    /\ UNCHANGED <<env, instances, module_getattr, objs, dirs, files, nsave,
                   threads>>

SetItem ==
    \E i \in 1..Len(objs), key \in MutKeys, value \in MutValues :
        setitem(i, key, value)

\* del instance.config[key]
delitem(i, key) ==
    /\ nmut < MaxMut
    /\ IF key \in DOMAIN ConfigOf(i)
       THEN /\ dicts' = [dicts EXCEPT ![objs[i].config] =
                            [k \in DOMAIN @ \ {key} |-> @[k]]]
            /\ nmut' = nmut + 1
            /\ last' = Call("delitem", i, objs[i].cls, key, None, 0, "",
                            FALSE)
       ELSE /\ last' = Call("delitem", i, objs[i].cls, key, None, 0,
                            "KeyError", FALSE)
            /\ UNCHANGED <<dicts, nmut>>
    /\ UNCHANGED <<env, instances, module_getattr, objs, dirs, files, nsave,
                   threads>>

DelItem == \E i \in 1..Len(objs), key \in MutKeys : delitem(i, key)

(* ------------------------------ Confumo.copy -------------------------- *)

\* self after the loop that sets every module attribute on it
Promoted(o) == [o EXCEPT !.attrs = @ \cup ModuleAttrs]

\* copy.copy(self) updated with shallow_copy: a new object whose __dict__
\* holds the same values, the config dict included by reference
copied_instance(o) == o

\* a faulty variant of copy: the copy is recorded in the registry
copy_takes_slot(i) ==
    LET self == Promoted(objs[i])
    IN  /\ Len(objs) < MaxInst
        /\ objs' = Append([objs EXCEPT ![i] = self], copied_instance(self))
        /\ dicts' = dicts
        /\ instances' = [instances EXCEPT ![self.cls] = Len(objs) + 1]
        /\ last' = Call("copy", i, self.cls, "", None, Len(objs) + 1, "",
                        FALSE)
        /\ UNCHANGED <<env, module_getattr, dirs, files, nmut, nsave,
                       threads>>

\* Confumo.copy
copy(i) ==
    LET self == Promoted(objs[i])
        copied == copied_instance(self)
    IN  /\ Len(objs) < MaxInst
        /\ objs' = Append([objs EXCEPT ![i] = self], copied)
        /\ dicts' = dicts
        /\ last' = Call("copy", i, self.cls, "", None, Len(objs) + 1, "",
                        FALSE)
        /\ UNCHANGED <<env, instances, module_getattr, dirs, files, nmut,
                       nsave, threads>>

Copy == \E i \in 1..Len(objs) : copy(i)

(* --------------------------- Confumo.save_config ---------------------- *)

\* the keys of a dumped mapping, in the order yaml.dump writes them
KeyOrder ==
    <<"__setstate__", "app_name", "config_dir", "custom_value", "log_level">>

\* a scalar as yaml.dump writes it
YamlScalar(v) ==
    CASE v = None -> "null"
      [] v = "" -> "''"
      [] OTHER -> v

InDict(d, k) == k \in DOMAIN d

\* yaml.dump(config): the items, keys sorted
Dump(config) ==
    LET ks == SelectSeq(KeyOrder, LAMBDA k : InDict(config, k))
    IN  [n \in 1..Len(ks) |-> <<ks[n], YamlScalar(config[ks[n]])>>]

\* open(path, 'w') and the write: the file holds content, whatever it held
WriteFile(path, content) == update(files, [p \in {path} |-> content])

\* a faulty variant of save_config: the file is named after the class, not the app
save_config_wrong_name(i) ==
    LET self == objs[i]
        config_path == Join(self.config_dir, ConfigFileName("confumo"))
    IN  /\ nsave < MaxSave
        /\ dirs' = dirs \cup {self.config_dir}
        /\ files' = WriteFile(config_path, Dump(ConfigOf(i)))
        /\ last' = Call("save_config", i, self.cls, "", config_path, 0, "",
                        self.config_dir \notin dirs)
        /\ nsave' = nsave + 1
        /\ UNCHANGED <<env, instances, module_getattr, objs, dicts, nmut,
                       threads>>

\* Confumo.save_config
save_config(i) ==
    LET self == objs[i]
        config_path == Join(self.config_dir, ConfigFileName(self.app_name))
    IN  /\ nsave < MaxSave
        /\ dirs' = IF self.config_dir \notin dirs
                   THEN dirs \cup {self.config_dir}
                   ELSE dirs
        /\ files' = WriteFile(config_path, Dump(ConfigOf(i)))
        /\ last' = Call("save_config", i, self.cls, "", config_path, 0, "",
                        self.config_dir \notin dirs)
        /\ nsave' = nsave + 1
        /\ UNCHANGED <<env, instances, module_getattr, objs, dicts, nmut,
                       threads>>

SaveConfig == \E i \in 1..Len(objs) : save_config(i)

(* ---------------------------- specifications -------------------------- *)

\* the registry, attribute lookup, the owner's changes to config, and copy
Next ==
    \/ GetInstance
    \/ GetAttr
    \/ SetItem
    \/ DelItem
    \/ Copy

Spec == Init /\ [][Next]_vars

\* saving: instances and copies, their configs changed between saves
SaveNext ==
    \/ GetInstance
    \/ SetItem
    \/ Copy
    \/ SaveConfig

SaveSpec == Init /\ [][SaveNext]_vars

(* ------------- SingletonBase.get_instance, calls racing --------------- *)

\* thread t calls cls.get_instance(app_name, additional_args)
enter(t) ==
    /\ threads[t].pc = "idle"
    /\ \E cls \in Classes, a \in CallArgs :
          threads' = [threads EXCEPT ![t] =
                         [@ EXCEPT !.pc = "check", !.cls = cls,
                                   !.app_name = a[1],
                                   !.additional_args = a[2]]]
    /\ UNCHANGED <<env, instances, module_getattr, objs, dicts, dirs, files,
                   last, nmut, nsave>>

\* a faulty variant of check: the membership test is skipped, the constructor
\* always runs
check_skips_membership(t) ==
    /\ threads[t].pc = "check"
    /\ threads' = [threads EXCEPT ![t] =
                      [@ EXCEPT !.pc = "construct",
                                !.absent = instances[threads[t].cls] = 0]]
    /\ UNCHANGED <<env, instances, module_getattr, objs, dicts, dirs, files,
                   last, nmut, nsave>>

\* if cls not in cls._instances
check(t) ==
    /\ threads[t].pc = "check"
    /\ threads' = [threads EXCEPT ![t] =
                      IF instances[threads[t].cls] = 0
                      THEN [@ EXCEPT !.pc = "construct", !.absent = TRUE]
                      ELSE [@ EXCEPT !.pc = "return"]]
    /\ UNCHANGED <<env, instances, module_getattr, objs, dicts, dirs, files,
                   last, nmut, nsave>>

\* cls(*args, **kwargs), the right-hand side of the assignment
construct(t) ==
    LET self == threads[t]
        made == Construct(self.cls, self.app_name, self.additional_args, env)
    IN  /\ self.pc = "construct"
        /\ Len(objs) < MaxInst
        /\ IF made.ok
           THEN /\ Allocate(made.val)
                /\ threads' = [threads EXCEPT ![t] =
                                  [@ EXCEPT !.pc = "store",
                                            !.new = Len(objs) + 1]]
           ELSE /\ threads' = [threads EXCEPT ![t] =
                                  [@ EXCEPT !.pc = "done", !.err = made.err]]
                /\ UNCHANGED <<objs, dicts, module_getattr>>
        /\ UNCHANGED <<env, instances, dirs, files, last, nmut, nsave>>

\* cls._instances[cls] = <the object constructed>
store(t) ==
    /\ threads[t].pc = "store"
    /\ instances' = [instances EXCEPT ![threads[t].cls] = threads[t].new]
    /\ threads' = [threads EXCEPT ![t] = [@ EXCEPT !.pc = "return"]]
    /\ UNCHANGED <<env, module_getattr, objs, dicts, dirs, files, last, nmut,
                   nsave>>

\* return cls._instances[cls]
return(t) ==
    /\ threads[t].pc = "return"
    /\ threads' = [threads EXCEPT ![t] =
                      [@ EXCEPT !.pc = "done",
                                !.res = instances[threads[t].cls]]]
    /\ UNCHANGED <<env, instances, module_getattr, objs, dicts, dirs, files,
                   last, nmut, nsave>>

RaceNext ==
    \E t \in 1..NThreads :
        \/ enter(t)
        \/ check(t)
        \/ construct(t)
        \/ store(t)
        \/ return(t)

RaceSpec == Init /\ [][RaceNext]_vars

(* ================================ claims ============================== *)

Objects == 1..Len(objs)

\* the step is a call of op: every action but the thread steps records its
\* call in last, and no two different calls leave the same record
IsCall(op) == last'.op = op /\ last' # last

(* C1: successive get_instance calls on a class return the very same      *)
(* object as the first call whatever arguments they pass: once a class    *)
(* has an entry, the entry never changes, a call on that class returns    *)
(* it without running the constructor and changes no object and no        *)
(* config, and the object's app_name, config_dir and args stay those      *)
(* built from the arguments of the call that constructed it.              *)
C1_SameInstance ==
    [][\A c \in Classes :
          /\ instances[c] # 0 =>
                LET i == instances[c]
                IN  /\ instances'[c] = i
                    /\ objs'[i].app_name = objs[i].app_name
                    /\ objs'[i].config_dir = objs[i].config_dir
                    /\ objs'[i].args = objs[i].args
                    /\ objs'[i].config = objs[i].config
          /\ (last'.op = "get_instance" /\ last'.cls = c /\ instances[c] # 0)
                => /\ last'.res = instances[c]
                   /\ last'.err = ""
                   /\ ~last'.made
                   /\ objs' = objs
                   /\ dicts' = dicts
          /\ (last'.op = "get_instance" /\ last'.cls = c /\ instances[c] = 0
                /\ last'.res # 0)
                => /\ instances'[c] = last'.res
                   /\ objs'[last'.res].app_name = last'.name
                   /\ objs'[last'.res].additional_args = last'.val]_vars

\* a later call passed another app_name and got the object of the first
C1_Witness ==
    /\ last.op = "get_instance"
    /\ ~last.made
    /\ last.res # 0
    /\ last.res = instances[last.cls]
    /\ objs[last.res].app_name # last.name

(* C2 as stated: also when first calls race, the constructor runs exactly *)
(* once per class and every caller receives the object the registry       *)
(* holds.                                                                 *)
ObjectsOf(c) == {i \in Objects : objs[i].cls = c}

CallersOf(c) == {t \in 1..NThreads : threads[t].cls = c}

C2_OnceUnderRaces ==
    \A c \in Classes :
        /\ Cardinality(ObjectsOf(c)) <= 1
        /\ \A t \in CallersOf(c) :
              threads[t].pc = "done" => threads[t].res = instances[c]

(* C2 amended: the constructor runs once for each call whose membership   *)
(* test found no entry, never otherwise; when at most one call on a class *)
(* found no entry (as when the first call returns before any other        *)
(* starts) the constructor ran at most once and every caller that         *)
(* returned received the one object the registry holds.                   *)
FoundAbsent(c) == {t \in CallersOf(c) : threads[t].absent}

C2_OncePerAbsentCheck ==
    \A c \in Classes :
        /\ Cardinality(ObjectsOf(c)) =
              Cardinality({t \in FoundAbsent(c) : threads[t].new # 0})
        /\ \A t \in CallersOf(c) \ FoundAbsent(c) :
              threads[t].pc \in {"check", "return", "done"}
        /\ Cardinality(FoundAbsent(c)) <= 1 =>
              /\ Cardinality(ObjectsOf(c)) <= 1
              /\ \A t \in CallersOf(c) :
                    threads[t].pc = "done" =>
                        /\ threads[t].res = instances[c]
                        /\ ObjectsOf(c) = {threads[t].res}

\* two calls on one class returned, only one of them having constructed
C2_Witness ==
    \E t, u \in 1..NThreads :
        /\ t # u
        /\ threads[t].cls = threads[u].cls
        /\ threads[t].pc = "done" /\ threads[u].pc = "done"
        /\ threads[t].absent /\ ~threads[u].absent
        /\ threads[t].app_name # threads[u].app_name
        /\ threads[t].res = threads[u].res

(* C3: the assembled configuration is the base map {log_level, app_name,  *)
(* config_dir (normalised)} overridden by exactly the file's entries      *)
(* whose value is not None; with no config file it is the base map.       *)
AllKeys == {"log_level", "app_name", "config_dir"} \cup FileKeys

C3_Merge ==
    \A i \in Objects :
        LET o == objs[i]
            config == ConfigOf(i)
            F == IF o.args["config"] \in {None, ""} THEN <<>>
                 ELSE env.file.doc.map
            overriding == {k \in DOMAIN F : F[k] # None}
        IN  /\ DOMAIN config =
                  {"log_level", "app_name", "config_dir"} \cup overriding
            /\ \A k \in overriding : config[k] = F[k]
            /\ "log_level" \notin overriding =>
                  config["log_level"] = o.args["log_level"]
            /\ "app_name" \notin overriding => config["app_name"] = o.app_name
            /\ "config_dir" \notin overriding =>
                  config["config_dir"] =
                      ensure_windows_path(o.args["config_dir"], env).val

\* a file overriding log_level and giving custom_value no value was merged
C3_Witness ==
    \E i \in Objects :
        /\ objs[i].args["config"] = "app.yaml"
        /\ objs[i].args["log_level"] = "INFO"
        /\ env.file.doc.map = [k \in FileKeys |->
                                 IF k = "log_level" THEN "DEBUG" ELSE None]
        /\ ConfigOf(i)["log_level"] = "DEBUG"
        /\ "custom_value" \notin DOMAIN ConfigOf(i)

(* C4 as stated: for every name that ordinary lookup does not find, the   *)
(* lookup returns the config value when the name is a config key, else    *)
(* the parsed argument's value when the arguments have that field, else   *)
(* fails with AttributeError.                                             *)
Precedence(o, config, name) ==
    IF name \in DOMAIN config
    THEN last.err = "" /\ last.val = config[name]
    ELSE IF name \in DOMAIN o.args
    THEN last.err = "" /\ last.val = o.args[name]
    ELSE last.err \in {AttributeErrorNoMessage, AttributeErrorNoAttribute}

C4_Precedence ==
    (last.op = "getattr"
        /\ last.name \notin InstanceDict(objs[last.obj]) \cup ClassAttrs)
        => Precedence(objs[last.obj], ConfigOf(last.obj), last.name)

(* C4 amended: the precedence holds for every such name other than        *)
(* __getstate__ and __setstate__; for these two names the lookup fails    *)
(* with AttributeError even when the name is a config key or an argument  *)
(* field.  No lookup changes any state.                                   *)
C4_Resolved ==
    (last.op = "getattr"
        /\ last.name \notin InstanceDict(objs[last.obj]) \cup ClassAttrs)
        => IF last.name \in {"__getstate__", "__setstate__"}
           THEN last.err = AttributeErrorNoMessage
           ELSE Precedence(objs[last.obj], ConfigOf(last.obj), last.name)

C4_PrecedenceButPickling ==
    [][IsCall("getattr") =>
          /\ C4_Resolved'
          /\ UNCHANGED <<env, instances, module_getattr, objs, dicts, dirs,
                         files>>]_vars

\* a config value was returned for a name the arguments bind differently
C4_Witness ==
    /\ last.op = "getattr"
    /\ last.name = "log_level"
    /\ last.val = "DEBUG"
    /\ objs[last.obj].args["log_level"] = "INFO"

\* the config dict of object i after the step
ConfigAfter(i) == dicts'[objs'[i].config]

(* C5: a copy is independent of its original: a change made to the        *)
(* config of one object (an item added, replaced or removed) is not       *)
(* visible through the config of any other object.                        *)
C5_Independent ==
    [][\A i \in Objects :
          ((IsCall("setitem") \/ IsCall("delitem")) /\ last'.obj # i)
              => ConfigAfter(i) = ConfigOf(i)]_vars

(* C6: copy() returns a new object, not the receiver, whose app_name and  *)
(* config equal the receiver's at the time of the call; it leaves the     *)
(* registry unchanged, and no registry entry is the copy.                 *)
C6_DetachedSnapshot ==
    [][IsCall("copy") =>
          LET x == last'.obj
              c == last'.res
          IN  /\ c # x
              /\ c \notin Objects
              /\ c \in 1..Len(objs')
              /\ objs'[c].app_name = objs[x].app_name
              /\ ConfigAfter(c) = ConfigOf(x)
              /\ ConfigAfter(x) = ConfigOf(x)
              /\ instances' = instances
              /\ \A k \in Classes : instances'[k] # c]_vars

\* the registered instance, its config changed since construction, was
\* copied
C6_Witness ==
    /\ last.op = "copy"
    /\ instances[last.cls] = last.obj
    /\ last.res = Len(objs)
    /\ "custom_value" \in DOMAIN ConfigOf(last.res)

(* C7: save_config() creates the config directory only when it is         *)
(* missing, writes the serialisation of the current config to             *)
(* <config_dir>/<app_name>_config.yaml, replacing what the file held and  *)
(* touching no other file, returns that path, and leaves config           *)
(* unchanged.                                                             *)
C7_Save ==
    [][(last'.op = "save_config" /\ nsave' = nsave + 1) =>
          LET self == objs[last'.obj]
              path == self.config_dir \o "/" \o self.app_name
                          \o "_config.yaml"
          IN  /\ dirs' = dirs \cup {self.config_dir}
              /\ last'.made <=> self.config_dir \notin dirs
              /\ DOMAIN files' = DOMAIN files \cup {path}
              /\ files'[path] = Dump(ConfigOf(last'.obj))
              /\ \A p \in DOMAIN files \ {path} : files'[p] = files[p]
              /\ last'.val = path
              /\ last'.err = ""
              /\ dicts' = dicts
              /\ objs' = objs]_vars

\* a second save, into the directory the first created, wrote a config
\* changed after construction over the file of the first
C7_Witness ==
    /\ last.op = "save_config"
    /\ ~last.made
    /\ nsave = 2
    /\ objs[last.obj].app_name = "testapp"
    /\ last.val \in DOMAIN files
    /\ \E n \in 1..Len(files[last.val]) :
          files[last.val][n] = <<"custom_value", "x">>

(* C8: the platform resolver is a total function of the platform name     *)
(* and LOCALAPPDATA: Darwin gives the per-user application-support path,  *)
(* Linux and CYGWIN the per-user config path, Windows the value of        *)
(* LOCALAPPDATA when set and non-empty and else the library's error,      *)
(* every other name the library's unsupported-OS error; a failing case    *)
(* returns no directory (the constructor raises, no object is made).      *)
ResolvedTo(dir) ==
    /\ last.err \notin ConfumoErrors
    /\ last.res # 0 => objs[last.res].config_dir = dir \o "/" \o last.name

FailedWith(e) == last.err = e /\ last.res = 0 /\ objs = <<>>

BadFile == env.file.state # "yaml" \/ env.file.doc.kind # "map"

ReachesAssembler ==
    /\ get_default_config_dir(env.platform, env.LOCALAPPDATA).ok
    /\ parse_args(env.argv, "", None).ok

C9_LibraryError ==
    (last.op = "get_instance" /\ last.made /\ ReachesAssembler
        /\ env.argv.config \notin {None, ""} /\ BadFile)
        => /\ last.err \in ConfumoErrors
           /\ last.res = 0
           /\ instances[last.cls] = 0

(* C10: the directory save_config() creates and writes into is the        *)
(* normalised directory recorded under config_dir in the configuration    *)
(* map, whatever --config_dir was given.                                  *)
C10_SavesWhereConfigured ==
    last.op = "save_config" =>
        LET config == ConfigOf(last.obj)
        IN  /\ objs[last.obj].config_dir = config["config_dir"]
            /\ config["config_dir"] \in dirs
            /\ last.val = config["config_dir"] \o "/"
                              \o objs[last.obj].app_name \o "_config.yaml"

====
